---- MODULE Spec2Model ----
(***************************************************************************)
(* Model of src/main.cpp: Euler integration (naive and symplectic) of      *)
(* point masses under mutual gravity.                                      *)
(*                                                                         *)
(* Arithmetic.  The program computes in IEEE doubles.  Here a finite       *)
(* double is an integer: + - * are exact, / and sqrt round toward zero     *)
(* (sign-symmetric, as IEEE rounding is), and the unit vector returned by  *)
(* glm::normalize is held in fixed point with resolution 1/Unit.  The one  *)
(* non-finite value the program can produce from finite input of this size *)
(* is NaN: glm::normalize of the zero vector is 0 * inversesqrt(0) =       *)
(* 0 * inf = NaN in both components, and NaN then propagates through every *)
(* operation.  A vec2 is therefore [nan, x, y], nan meaning both           *)
(* components are NaN.  Overflow to infinity is not modelled.              *)
(*                                                                         *)
(* Indices are 1-based here and 0-based in the source: objects[1] is the   *)
(* source's objects[0].                                                    *)
(***************************************************************************)
EXTENDS Integers, Sequences, FiniteSets, TLC

\* main.cpp:8, in model time units (3600.0 s in the source)
delta_time == 2
\* main.cpp:10 (24*365 in the source), bounded for model checking
number_steps == 3
\* main.cpp:11, in model units (6.674e-11 in the source)
gravity_constant == 4
\* resolution of the fixed-point image of a double in [-1, 1] (main.cpp:13)
Unit == 10

METHOD_NAIVE == "naive"
METHOD_SYMPLECTIC == "symplectic"

----------------------------------------------------------------------------
(* vec2 = glm::highp_dvec2 *)

V(x, y) == [nan |-> FALSE, x |-> x, y |-> y]
NaNVec == [nan |-> TRUE, x |-> 0, y |-> 0]

\* a / b for b > 0, rounded toward zero
Quot(a, b) == IF a >= 0 THEN a \div b ELSE -((-a) \div b)

RECURSIVE SqrtSearch(_, _, _)
SqrtSearch(n, lo, hi) ==
    IF hi - lo <= 1 THEN lo
    ELSE LET mid == (lo + hi) \div 2
         IN IF mid * mid <= n THEN SqrtSearch(n, mid, hi)
                              ELSE SqrtSearch(n, lo, mid)

\* sqrt(n) rounded toward zero, 0 <= n < 46340^2
Sqrt(n) == SqrtSearch(n, 0, 46340)

VAdd(a, b) == IF a.nan \/ b.nan THEN NaNVec ELSE V(a.x + b.x, a.y + b.y)
VSub(a, b) == IF a.nan \/ b.nan THEN NaNVec ELSE V(a.x - b.x, a.y - b.y)
VNeg(a) == IF a.nan THEN NaNVec ELSE V(-a.x, -a.y)
\* vec2 * double and vec2 / double, the double finite (and positive for /)
VMul(a, s) == IF a.nan THEN NaNVec ELSE V(a.x * s, a.y * s)
VDiv(a, s) == IF a.nan THEN NaNVec ELSE V(Quot(a.x, s), Quot(a.y, s))

\* glm::length2(v) = dot(v, v), v finite
Length2(v) == v.x * v.x + v.y * v.y

\* glm::distance(a, b) = sqrt(dot(b - a, b - a)); a double, NaN when either is
Distance(a, b) ==
    LET d == VSub(b, a)
    IN IF d.nan THEN [nan |-> TRUE, v |-> 0]
                ELSE [nan |-> FALSE, v |-> Sqrt(Length2(d))]

----------------------------------------------------------------------------
(* struct Object (the name has no effect and is left out) *)

Body(m, p, v) == [mass |-> m, position |-> p, velocity |-> v, force |-> V(0, 0)]

\* main.cpp:55-64, one pair: the force on i, directed from i to j
PairForce(objs, i, j) ==
    LET vector == VSub(objs[j].position, objs[i].position)
    IN IF vector.nan THEN NaNVec
       ELSE IF Length2(vector) = 0 THEN NaNVec    \* normalize: 0 * inf
       ELSE LET len == Sqrt(Length2(vector) * Unit * Unit)
                direction == V(Quot(vector.x * Unit * Unit, len),
                               Quot(vector.y * Unit * Unit, len))
                distance_sq == Length2(vector)
                force == Quot(gravity_constant * (objs[i].mass * objs[j].mass),
                              distance_sq)
            IN V(Quot(direction.x * force, Unit), Quot(direction.y * force, Unit))

\* Reaction with the negation of main.cpp:64 dropped
ReactionSameSign(f) == f

\* main.cpp:64, the force stored on j given the one just stored on i
Reaction(f) == VNeg(f)

\* main.cpp:63-64, the two assignments of one pair
SetPair(objs, i, j) ==
    LET fi == PairForce(objs, i, j)
    IN [objs EXCEPT ![i].force = fi, ![j].force = Reaction(fi)]

RECURSIVE ForceLoopFrom(_, _, _)
\* main.cpp:51-66 from pair (i, j) on, pairs in increasing (i, j) order
ForceLoopFrom(objs, i, j) ==
    LET n == Len(objs)
        done == SetPair(objs, i, j)
    IN IF j < n THEN ForceLoopFrom(done, i, j + 1)
       ELSE IF i + 1 < n THEN ForceLoopFrom(done, i + 1, i + 2)
       ELSE done

\* main.cpp:51-66, the whole force computation of a step
ForceLoop(objs) == ForceLoopFrom(objs, 1, 2)

\* PositionVelocity with the two branches of main.cpp:78-85 exchanged
PositionVelocitySwapped(m, old_velocity, new_velocity) ==
    CASE m = METHOD_NAIVE -> new_velocity
      [] m = METHOD_SYMPLECTIC -> old_velocity

\* main.cpp:80 and 84: the velocity the position update reads
PositionVelocity(m, old_velocity, new_velocity) ==
    CASE m = METHOD_NAIVE -> old_velocity
      [] m = METHOD_SYMPLECTIC -> new_velocity

\* IntegrateOne with the force loop run again inside the integration loop, so
\* that the next body's force is computed from positions already updated
IntegrateOneFused(objs, b, m) ==
    LET acceleration == VDiv(objs[b].force, objs[b].mass)
        old_velocity == objs[b].velocity
        new_velocity == VAdd(old_velocity, VMul(acceleration, delta_time))
        new_position == VAdd(objs[b].position,
                             VMul(PositionVelocity(m, old_velocity, new_velocity),
                                  delta_time))
    IN ForceLoop([objs EXCEPT ![b].velocity = new_velocity,
                              ![b].position = new_position])

\* main.cpp:71-88, one body
IntegrateOne(objs, b, m) ==
    LET acceleration == VDiv(objs[b].force, objs[b].mass)
        old_velocity == objs[b].velocity
        new_velocity == VAdd(old_velocity, VMul(acceleration, delta_time))
        new_position == VAdd(objs[b].position,
                             VMul(PositionVelocity(m, old_velocity, new_velocity),
                                  delta_time))
    IN [objs EXCEPT ![b].velocity = new_velocity, ![b].position = new_position]

\* Record with the time of the end of the step instead of its start
RecordEndTime(objs, s) ==
    [elapsed  |-> (s + 1) * delta_time,
     body0    |-> objs[1].position,
     body1    |-> objs[2].position,
     distance |-> Distance(objs[1].position, objs[2].position)]

\* main.cpp:92-95, the record written by the step with index s
Record(objs, s) ==
    [elapsed  |-> s * delta_time,
     body0    |-> objs[1].position,
     body1    |-> objs[2].position,
     distance |-> Distance(objs[1].position, objs[2].position)]

\* ValidArguments accepting a command line that passes either check
ValidArgumentsEither(c, a) ==
    \/ c = 2
    \/ ~(a # METHOD_NAIVE /\ a # METHOD_SYMPLECTIC)

\* main.cpp:29 and 37: the argument checks that let the run start
ValidArguments(c, a) ==
    /\ c = 2
    /\ ~(a # METHOD_NAIVE /\ a # METHOD_SYMPLECTIC)

\* LoopTest off by one
LoopTestInclusive(s) == s <= number_steps

\* main.cpp:48, the loop test
LoopTest(s) == s < number_steps

----------------------------------------------------------------------------
(* Inputs *)

\* command lines: argc and, when present, argv[1]
CommandLines ==
    {<<1, "">>, <<3, "naive">>, <<2, "euler">>, <<2, "">>,
     <<2, "naive">>, <<2, "symplectic">>}

\* main.cpp:43-46 taken as a parameter: the body lists the loops are run on
TwoBodies ==
    { <<Body(m1, V(0, 0), v1), Body(10, p2, v2)>> :
        m1 \in {20, 100},
        p2 \in {V(0, 0), V(4, 0), V(3, 4)},
        v1 \in {V(0, -1), V(1, 0)},
        v2 \in {V(0, 4), V(-1, 0)} }

ThreeBodies ==
    { <<Body(100, V(0, 0), V(0, -1)), Body(10, V(4, 0), V(0, 4)),
        Body(m3, V(0, 3), V(-2, 0))>> : m3 \in {10, 50} }

InitialObjects == TwoBodies \cup ThreeBodies

----------------------------------------------------------------------------
(* State *)

VARIABLES
    argc,       \* main's argc
    arg,        \* argv[1] ("" when absent)
    initial,    \* the initializer of objects (main.cpp:43-46)
    pc,         \* "start", "force", "integrate", "emit", "done"
    status,     \* main's return value once pc = "done", else -1
    objects,    \* std::vector<Object> objects
    step,       \* the loop variable of main.cpp:48
    i, j,       \* the loop variables of main.cpp:51/53 and 69
    output,     \* the records written to std::cout
    snapshot,   \* history: objects as they were when the current step began
    used,       \* history: the force each body's integration read this step
    after       \* history: the positions at the end of each integration loop

vars == <<argc, arg, initial, pc, status, objects, step, i, j, output,
          snapshot, used, after>>

method == arg

Positions(objs) == [b \in 1..Len(objs) |-> objs[b].position]
NoForce(objs) == [b \in 1..Len(objs) |-> V(0, 0)]

Init ==
    /\ \E cl \in CommandLines : argc = cl[1] /\ arg = cl[2]
    /\ initial \in InitialObjects
    /\ pc = "start"
    /\ status = -1
    /\ objects = <<>>
    /\ step = 0
    /\ i = 0
    /\ j = 0
    /\ output = <<>>
    /\ snapshot = <<>>
    /\ used = <<>>
    /\ after = <<>>

\* main.cpp:29-41: a usage error
Reject ==
    /\ pc = "start"
    /\ ~ValidArguments(argc, arg)
    /\ pc' = "done"
    /\ status' = 1
    /\ UNCHANGED <<argc, arg, initial, objects, step, i, j, output,
                   snapshot, used, after>>

\* main.cpp:29-48: the checks pass, objects is built, the loop is entered
Start ==
    /\ pc = "start"
    /\ ValidArguments(argc, arg)
    /\ objects' = initial
    /\ step' = 0
    /\ snapshot' = initial
    /\ used' = NoForce(initial)
    /\ IF LoopTest(0)
         THEN pc' = "force" /\ i' = 1 /\ j' = 2 /\ status' = status
         ELSE pc' = "done" /\ i' = i /\ j' = j /\ status' = 0
    /\ UNCHANGED <<argc, arg, initial, output, after>>

\* main.cpp:51-66: one iteration of the inner loop, and the loop advance
ComputeForce ==
    /\ pc = "force"
    /\ objects' = SetPair(objects, i, j)
    /\ IF j < Len(objects)
         THEN i' = i /\ j' = j + 1 /\ pc' = pc
         ELSE IF i + 1 < Len(objects)
           THEN i' = i + 1 /\ j' = i + 2 /\ pc' = pc
           ELSE i' = 1 /\ j' = j /\ pc' = "integrate"
    /\ UNCHANGED <<argc, arg, initial, status, step, output, snapshot, used, after>>

\* main.cpp:69-89: one iteration of the integration loop
Integrate ==
    /\ pc = "integrate"
    /\ objects' = IntegrateOne(objects, i, method)
    /\ used' = [used EXCEPT ![i] = objects[i].force]
    /\ IF i < Len(objects)
         THEN i' = i + 1 /\ pc' = pc /\ after' = after
         ELSE i' = i /\ pc' = "emit" /\ after' = Append(after, Positions(objects'))
    /\ UNCHANGED <<argc, arg, initial, status, step, j, output, snapshot>>

\* main.cpp:92-96 and 48: write the record, step++, test the loop condition
Emit ==
    /\ pc = "emit"
    /\ output' = Append(output, Record(objects, step))
    /\ step' = step + 1
    /\ IF LoopTest(step + 1)
         THEN /\ pc' = "force" /\ i' = 1 /\ j' = 2 /\ status' = status
              /\ snapshot' = objects
         ELSE /\ pc' = "done" /\ i' = i /\ j' = j /\ status' = 0
              /\ snapshot' = snapshot
    /\ UNCHANGED <<argc, arg, initial, objects, used, after>>

Next == Reject \/ Start \/ ComputeForce \/ Integrate \/ Emit

Spec == Init /\ [][Next]_vars

\* the program is a single thread that runs to its return
FairSpec == Spec /\ WF_vars(Next)

----------------------------------------------------------------------------
(* Properties *)

Bodies == 1..Len(objects)
Finite(b) == ~objects[b].position.nan /\ ~objects[b].velocity.nan
                /\ ~objects[b].force.nan
\* body b has been integrated in the current step
Integrated(b) == pc = "emit" \/ (pc = "integrate" /\ b < i)
\* two bodies of objs, both at finite positions, are at the same position
Coincident(objs) ==
    \E a, b \in 1..Len(objs) :
        /\ a < b
        /\ ~objs[a].position.nan /\ ~objs[b].position.nan
        /\ objs[a].position = objs[b].position

ValidMethod == argc = 2 /\ arg \in {"naive", "symplectic"}

\* C1: in every step and for every body, the new velocity is the old velocity
\* plus (force / mass) * time step under both methods; the new position is
\* the old position plus time step times the old velocity under "naive" and
\* times the new velocity under "symplectic".
C1_UpdateRule ==
    \A b \in Bodies : Integrated(b) =>
        LET old == snapshot[b]
            new == objects[b]
        IN /\ new.velocity =
                VAdd(old.velocity, VMul(VDiv(used[b], old.mass), delta_time))
           /\ method = "naive" =>
                new.position = VAdd(old.position, VMul(old.velocity, delta_time))
           /\ method = "symplectic" =>
                new.position = VAdd(old.position, VMul(new.velocity, delta_time))

C1_Witness ==
    /\ pc = "emit" /\ step >= 1 /\ method = "symplectic"
    /\ \A b \in Bodies : Finite(b) /\ objects[b].velocity # snapshot[b].velocity
    /\ objects[2].position =
         VAdd(snapshot[2].position, VMul(objects[2].velocity, delta_time))

\* C2: for either valid method the run terminates, and when it has it has
\* written exactly number_steps records; it never holds more than that.
C2_RecordCount ==
    /\ [](Len(output) <= number_steps)
    /\ []((pc = "done" /\ status = 0) => Len(output) = number_steps)
    /\ (ValidMethod ~> (pc = "done" /\ status = 0))

C2_Witness ==
    /\ pc = "done" /\ status = 0 /\ method = "naive"
    /\ Len(output) = number_steps

\* C3: with the selector missing, or not "naive" or "symplectic", the program
\* ends with a non-zero status, writes no record, executes no step and
\* integrates no body.
C3_UsageError ==
    (argc # 2 \/ arg \notin {"naive", "symplectic"}) =>
        /\ pc \in {"start", "done"}
        /\ pc = "done" => status # 0
        /\ output = <<>>
        /\ objects = <<>> /\ used = <<>> /\ after = <<>>
        /\ step = 0

C3_Witness ==
    /\ pc = "done" /\ status = 1 /\ argc = 2 /\ arg = "euler"
    /\ output = <<>>

\* C4: with two bodies, in every step, once the forces are computed the force
\* on body 0 is the negation of the force on body 1, and this is the pair of
\* forces the step's integration reads.
C4_EqualAndOpposite ==
    (Len(objects) = 2 /\ pc \in {"integrate", "emit"}) =>
        /\ objects[1].force = VNeg(objects[2].force)
        /\ \A b \in Bodies : Integrated(b) => used[b] = objects[b].force
        /\ pc = "emit" => used[1] = VNeg(used[2])

\* operator== on doubles: a NaN compares unequal to everything, itself included
IeeeEqual(a, b) == ~a.nan /\ ~b.nan /\ a = b

\* the comparison force[0] == -force[1] made by the program's own operator==
\* is true exactly when the forces are not NaN, that is, when the two bodies
\* were not at the same position and neither position was NaN
C4_ComparesEqualUnlessNaN ==
    (Len(objects) = 2 /\ pc \in {"integrate", "emit"}) =>
        (IeeeEqual(objects[1].force, VNeg(objects[2].force))
            <=> ~(Coincident(snapshot) \/ snapshot[1].position.nan
                                        \/ snapshot[2].position.nan))

C4_Witness ==
    /\ Len(objects) = 2 /\ pc = "emit" /\ step >= 1
    /\ ~used[1].nan /\ used[1].x # 0 /\ used[1].y # 0
    /\ used[1] = VNeg(used[2])

\* C5: the k-th record written (step index k - 1) carries the elapsed time
\* (k - 1) * time step and the positions of body 0 and body 1, with their
\* distance, as they are after k integration loops; the state before the
\* first integration is never written.
C5_RecordContent ==
    /\ Len(after) >= Len(output)
    /\ pc = "emit" => Len(after) = step + 1
    /\ \A k \in 1..Len(output) :
         /\ output[k].elapsed = (k - 1) * delta_time
         /\ output[k].body0 = after[k][1]
         /\ output[k].body1 = after[k][2]
         /\ output[k].distance = Distance(after[k][1], after[k][2])

C5_Witness ==
    /\ Len(output) >= 2
    /\ output[1].elapsed = 0
    /\ ~output[1].distance.nan
    /\ output[1].body0 # initial[1].position
    /\ output[1].body1 # initial[2].position
    /\ output[2].body1 # output[1].body1

C6_Observed ==
    (Len(objects) = 2 /\ Coincident(snapshot)) =>
        /\ pc \in {"integrate", "emit"} =>
             objects[1].force.nan /\ objects[2].force.nan
        /\ pc = "emit" => objects[1].velocity.nan /\ objects[2].velocity.nan
        /\ pc = "done" => status = 0 /\ Len(output) = number_steps

RECURSIVE IntegrateDownFrom(_, _, _)
\* the integration loop run over the bodies in decreasing order, from b down
IntegrateDownFrom(objs, b, m) ==
    IF b = 0 THEN objs
    ELSE IntegrateDownFrom(IntegrateOne(objs, b, m), b - 1, m)

\* C9: within a step every body's force is computed from the positions the
\* step began with, before any body is moved: the force a body holds and the
\* force its integration reads are those of the force loop run on the state
\* the step began with, and the outcome of the step is the same with the
\* bodies integrated in the opposite order.
C9_ForcesFromSnapshot ==
    pc \in {"integrate", "emit"} =>
        /\ \A b \in Bodies :
             /\ objects[b].force = ForceLoop(snapshot)[b].force
             /\ Integrated(b) => used[b] = ForceLoop(snapshot)[b].force
        /\ pc = "emit" =>
             objects = IntegrateDownFrom(ForceLoop(snapshot), Len(snapshot), method)

C9_Witness ==
    /\ pc = "integrate" /\ i = 2 /\ step >= 1
    /\ \A b \in Bodies : Finite(b)
    /\ objects[1].position # snapshot[1].position
    /\ objects[2].force = ForceLoop(snapshot)[2].force
    /\ objects[2].force # ForceLoop(objects)[2].force

\* the gravitational pull of body k on body b
PullOn(objs, b, k) ==
    IF b < k THEN PairForce(objs, b, k) ELSE VNeg(PairForce(objs, k, b))

RECURSIVE SumOfPulls(_, _, _)
\* the pulls on b of the bodies k, k + 1, ... other than b, added up
SumOfPulls(objs, b, k) ==
    IF k > Len(objs) THEN V(0, 0)
    ELSE IF k = b THEN SumOfPulls(objs, b, k + 1)
    ELSE VAdd(PullOn(objs, b, k), SumOfPulls(objs, b, k + 1))

C10_TwoBodies ==
    (Len(objects) = 2 /\ pc \in {"integrate", "emit"}) =>
        \A b \in Bodies : objects[b].force = SumOfPulls(snapshot, b, 1)

====
